---- MODULE Spec2Model ----
(***************************************************************************)
(* The Cell expression language (cell-language.js and js/repl.js).         *)
(*                                                                         *)
(* Terms and values are records tagged by "kind" (the JavaScript class or  *)
(* typeof).  Environments live in a heap (a sequence of records), the      *)
(* global environment is heap[1].  evaluate / reduce thread the heap and a *)
(* log of the environment operations they perform.  Texts are sequences of *)
(* one-character strings, names are strings.                               *)
(***************************************************************************)
EXTENDS Integers, Sequences, FiniteSets, TLC

(***************************************************************************)
(* Bounds                                                                  *)
(***************************************************************************)
\* longest generated input text
MaxLen == 4
\* largest recursion argument applied to a Recurse form
MaxNat == 3
\* longest operand list handed to a native function
MaxArgs == 2
\* most scopes alive at once when the Environment operations are called
MaxScopes == 3

(***************************************************************************)
(* Values                                                                  *)
(***************************************************************************)
Natural(value) == [kind |-> "Natural", value |-> value]

\* the field value of a Boolean is named truth here, to keep it apart from
\* the numeric field value of a Natural
Boolean(value) == [kind |-> "Boolean", truth |-> value]

Symbol(name) == [kind |-> "Symbol", name |-> name]

Application(func, args) == [kind |-> "Application", func |-> func, args |-> args]

Bind(params, body) == [kind |-> "Bind", params |-> params, body |-> body]

Recurse(variable, recursiveCase, baseCase) ==
    [kind |-> "Recurse", variable |-> variable,
     recursiveCase |-> recursiveCase, baseCase |-> baseCase]

\* the class objects EvaluateForm and ReduceForm (typeof is 'function')
EvaluateForm == [kind |-> "EvaluateForm"]

ReduceForm == [kind |-> "ReduceForm"]

\* a JavaScript function value; name is its .name property ("" if anonymous)
Function(id, name) == [kind |-> "Function", id |-> id, name |-> name]

\* the JavaScript value undefined (a missing argument)
Undefined == [kind |-> "undefined"]

\* values of the host that are no Cell term: a string primitive, the
\* primitive false, a plain object
HostString(s) == [kind |-> "HostString", text |-> s]

HostFalse == [kind |-> "HostBoolean", truth |-> FALSE]

HostObject == [kind |-> "Object"]

\* a thrown exception: name is the constructor (Error, TypeError)
Exception(name, message) == [kind |-> "Exception", name |-> name, message |-> message]

TypeError(message) == Exception("TypeError", message)

\* the outcome of a call: a returned value or a thrown exception, and the
\* store st = [heap, log] it leaves behind
Return(val, st) == [ok |-> TRUE, val |-> val, st |-> st]

Throw(err, st) == [ok |-> FALSE, val |-> err, st |-> st]

\* the native functions of the language
AndFn == Function("And", "And")
OrFn == Function("Or", "Or")
NotFn == Function("Not", "Not")
EqualFn == Function("Equal", "Equal")
SuccFn == Function("Succ", "Succ")
AddFn == Function("Add", "Add")
LessThanFn == Function("LessThan", "LessThan")
\* the two anonymous function expressions of setupGlobalEnvironment
BindConstructor == Function("BindConstructor", "")
RecurseConstructor == Function("RecurseConstructor", "")

Primitives == {AndFn, OrFn, NotFn, EqualFn, SuccFn, AddFn, LessThanFn}

(***************************************************************************)
(* Object.prototype: `name in this.bindings` is also true of the keys a    *)
(* plain object literal inherits.  These are the inherited keys that the   *)
(* symbol grammar accepts, with the functions they hold.                   *)
(***************************************************************************)
ObjectPrototype ==
    [constructor |-> Function("Object", "Object"),
     hasOwnProperty |-> Function("hasOwnProperty", "hasOwnProperty"),
     isPrototypeOf |-> Function("isPrototypeOf", "isPrototypeOf"),
     propertyIsEnumerable |-> Function("propertyIsEnumerable", "propertyIsEnumerable"),
     toLocaleString |-> Function("toLocaleString", "toLocaleString"),
     toString |-> Function("toString", "toString"),
     valueOf |-> Function("valueOf", "valueOf")]

(***************************************************************************)
(* Environment                                                             *)
(***************************************************************************)
EmptyBindings == [n \in {} |-> Undefined]

\* new Environment(parent); parent 0 is null
Environment(parent) == [parent |-> parent, bindings |-> EmptyBindings]

Log(st, event) == [st EXCEPT !.log = Append(@, event)]

\* env.extend(): allocates a child, returns its address
extend(env, st) ==
    LET id == Len(st.heap) + 1
    IN  [id |-> id,
         st |-> Log([st EXCEPT !.heap = Append(@, Environment(env))],
                    [op |-> "extend", env |-> id, parent |-> env])]

\* define as it would be if it wrote the enclosing scope when there is one
defineInParent(env, name, value, st) ==
    LET target == IF st.heap[env].parent # 0 THEN st.heap[env].parent ELSE env
    IN  Log([st EXCEPT !.heap[target].bindings = (name :> value) @@ @],
            [op |-> "define", env |-> target, name |-> name])

\* env.define(name, value): writes the local scope only
define(env, name, value, st) ==
    Log([st EXCEPT !.heap[env].bindings = (name :> value) @@ @],
        [op |-> "define", env |-> env, name |-> name])

\* name in this.bindings
In(name, bindings) == name \in DOMAIN bindings \/ name \in DOMAIN ObjectPrototype

\* this.bindings[name]
Get(name, bindings) ==
    IF name \in DOMAIN bindings THEN bindings[name] ELSE ObjectPrototype[name]

RECURSIVE lookup(_, _, _)
lookup(env, name, st) ==
    IF In(name, st.heap[env].bindings)
    THEN Return(Get(name, st.heap[env].bindings), st)
    ELSE IF st.heap[env].parent # 0
         THEN lookup(st.heap[env].parent, name, st)
         ELSE Throw(Exception("Error", "Undefined symbol: " \o name), st)

(***************************************************************************)
(* toString                                                                *)
(***************************************************************************)
\* Function.prototype.toString gives the source text of the function; the
\* text is abbreviated here, one distinct text per function
FunctionSource(f) == "function " \o f.id \o "(...) {...}"

\* n copies of s, by halving
RECURSIVE Repeat(_, _)
Repeat(s, n) ==
    IF n = 0 THEN ""
    ELSE LET half == Repeat(s, n \div 2)
         IN  IF n % 2 = 0 THEN half \o half ELSE half \o half \o s

\* Natural.toString: value nested Succ[...] around Zero (the closed form of
\* the recursion on value - 1)
NaturalToString(value) == Repeat("Succ[", value) \o "Zero" \o Repeat("]", value)

RECURSIVE JoinStrings(_, _)
JoinStrings(strs, sep) ==
    IF Len(strs) = 0 THEN ""
    ELSE IF Len(strs) = 1 THEN strs[1]
    ELSE strs[1] \o sep \o JoinStrings(Tail(strs), sep)

\* whether v.toString() returns: undefined has no toString, and an
\* Application, Bind or Recurse renders its parts
RECURSIVE HasToString(_)
HasToString(v) ==
    CASE v.kind = "undefined" -> FALSE
      [] v.kind = "Application" ->
            /\ v.func.kind = "undefined" \/ HasToString(v.func)
            /\ \A i \in 1..Len(v.args) : HasToString(v.args[i])
      [] v.kind = "Bind" -> v.body.kind = "undefined" \/ HasToString(v.body)
      [] v.kind = "Recurse" ->
            /\ v.recursiveCase.kind = "undefined" \/ HasToString(v.recursiveCase)
            /\ v.baseCase.kind = "undefined" \/ HasToString(v.baseCase)
            /\ v.variable.kind = "undefined" \/ HasToString(v.variable)
      [] OTHER -> TRUE

\* String(v) inside a template literal: undefined gives "undefined"
RECURSIVE toString(_)
Interpolate(v) == IF v.kind = "undefined" THEN "undefined" ELSE toString(v)

toString(v) ==
    CASE v.kind = "Natural" -> NaturalToString(v.value)
      [] v.kind = "Boolean" -> IF v.truth THEN "True" ELSE "False"
      [] v.kind = "Symbol" -> v.name
      [] v.kind = "EvaluateForm" -> "Evaluate"
      [] v.kind = "ReduceForm" -> "Reduce"
      [] v.kind = "Bind" ->
            "Bind[" \o JoinStrings(v.params, ", ") \o ", " \o Interpolate(v.body) \o "]"
      [] v.kind = "Recurse" ->
            "Recurse[" \o Interpolate(v.variable) \o ", " \o Interpolate(v.recursiveCase)
                \o ", " \o Interpolate(v.baseCase) \o "]"
      [] v.kind = "Application" ->
            Interpolate(v.func) \o "["
                \o JoinStrings([i \in 1..Len(v.args) |-> toString(v.args[i])], ", ") \o "]"
      [] v.kind = "Function" -> FunctionSource(v)
      [] v.kind = "HostString" -> v.text
      [] v.kind = "HostBoolean" -> IF v.truth THEN "true" ELSE "false"
      [] v.kind = "Object" -> "[object Object]"

\* the property key `bindings[v]` coerces v to; a thrown TypeError when
\* v.toString() throws
PropertyKey(v) ==
    IF v.kind = "undefined" THEN [ok |-> TRUE, val |-> "undefined"]
    ELSE IF HasToString(v) THEN [ok |-> TRUE, val |-> toString(v)]
    ELSE [ok |-> FALSE,
          val |-> TypeError("Cannot read properties of undefined (reading 'toString')")]

(***************************************************************************)
(* Native functions.  Each takes the list of arguments of the call; a      *)
(* parameter without an argument is undefined.  Each yields a completion   *)
(* [ok, val]: the returned value, or the exception thrown.                 *)
(***************************************************************************)
Arg(args, i) == IF i <= Len(args) THEN args[i] ELSE Undefined

Completed(val) == [ok |-> TRUE, val |-> val]

Thrown(err) == [ok |-> FALSE, val |-> err]

And(args) ==
    LET a == Arg(args, 1)
        b == Arg(args, 2)
    IN  IF a.kind = "Boolean" /\ b.kind = "Boolean"
        THEN Completed(Boolean(a.truth /\ b.truth))
        ELSE Completed(Application(AndFn, <<a, b>>))

Or(args) ==
    LET a == Arg(args, 1)
        b == Arg(args, 2)
    IN  IF a.kind = "Boolean" /\ b.kind = "Boolean"
        THEN Completed(Boolean(a.truth \/ b.truth))
        ELSE Completed(Application(OrFn, <<a, b>>))

Not(args) ==
    LET a == Arg(args, 1)
    IN  IF a.kind = "Boolean"
        THEN Completed(Boolean(~a.truth))
        ELSE Completed(Application(NotFn, <<a>>))

\* whether v.equals is truthy: only Natural and Boolean have the method
HasEquals(v) == v.kind \in {"Natural", "Boolean"}

\* a.equals(b)
Equals(a, b) ==
    /\ b.kind = a.kind
    /\ IF a.kind = "Natural" THEN a.value = b.value ELSE a.truth = b.truth

\* a.equals && b.equals reads a property of a, and of b when a.equals is
\* truthy: reading a property of undefined throws
Equal(args) ==
    LET a == Arg(args, 1)
        b == Arg(args, 2)
    IN  IF a.kind = "undefined"
        THEN Thrown(TypeError("Cannot read properties of undefined (reading 'equals')"))
        ELSE IF ~HasEquals(a)
        THEN Completed(Application(EqualFn, <<a, b>>))
        ELSE IF b.kind = "undefined"
        THEN Thrown(TypeError("Cannot read properties of undefined (reading 'equals')"))
        ELSE IF HasEquals(b)
        THEN Completed(Boolean(Equals(a, b)))
        ELSE Completed(Application(EqualFn, <<a, b>>))

Succ(args) ==
    LET n == Arg(args, 1)
    IN  IF n.kind = "Natural"
        THEN Completed(Natural(n.value + 1))
        ELSE Completed(Application(SuccFn, <<n>>))

Add(args) ==
    LET a == Arg(args, 1)
        b == Arg(args, 2)
    IN  IF a.kind = "Natural" /\ b.kind = "Natural"
        THEN Completed(Natural(a.value + b.value))
        ELSE Completed(Application(AddFn, <<a, b>>))

LessThan(args) ==
    LET a == Arg(args, 1)
        b == Arg(args, 2)
    IN  IF a.kind = "Natural" /\ b.kind = "Natural"
        THEN Completed(Boolean(a.value < b.value))
        ELSE Completed(Application(LessThanFn, <<a, b>>))

\* arg.name || arg.toString(): Symbol, functions and classes have a name
ParamName(arg) ==
    CASE arg.kind \in {"Symbol", "Function"} /\ arg.name # "" -> Completed(arg.name)
      [] arg.kind = "EvaluateForm" -> Completed("EvaluateForm")
      [] arg.kind = "ReduceForm" -> Completed("ReduceForm")
      [] OTHER ->
            IF HasToString(arg) THEN Completed(toString(arg))
            ELSE Thrown(TypeError("Cannot read properties of undefined (reading 'toString')"))

\* env.define("Bind", function(...args) {...})
BindFunction(args) ==
    IF Len(args) < 2
    THEN Thrown(Exception("Error", "Bind needs at least 2 arguments"))
    ELSE LET names == [i \in 1..(Len(args) - 1) |-> ParamName(args[i])]
             bad == {i \in 1..(Len(args) - 1) : ~names[i].ok}
         IN  IF bad # {}
             THEN names[CHOOSE i \in bad : \A j \in bad : i <= j]
             ELSE Completed(Bind([i \in 1..(Len(args) - 1) |-> names[i].val],
                                 args[Len(args)]))

\* env.define("Recurse", function(variable, recursiveCase, baseCase) {...})
RecurseFunction(args) ==
    Completed(Recurse(Arg(args, 1), Arg(args, 2), Arg(args, 3)))

\* the functions inherited from Object.prototype, called with this undefined
\* (the file is a module, so sloppy-mode this-substitution does not apply)
ObjectFunction(id, args) ==
    LET v == Arg(args, 1)
    IN  CASE id = "Object" ->
                IF v.kind = "undefined" THEN Completed(HostObject) ELSE Completed(v)
          [] id = "toString" -> Completed(HostString("[object Undefined]"))
          [] id = "isPrototypeOf" /\ v.kind \in {"undefined", "HostString", "HostBoolean"} ->
                Completed(HostFalse)
          [] OTHER -> Thrown(TypeError("Cannot convert undefined or null to object"))

\* typeof f === 'function'
IsFunction(f) == f.kind \in {"Function", "EvaluateForm", "ReduceForm"}

\* f(...args)
Call(f, args, st) ==
    LET c == CASE f = AndFn -> And(args)
               [] f = OrFn -> Or(args)
               [] f = NotFn -> Not(args)
               [] f = EqualFn -> Equal(args)
               [] f = SuccFn -> Succ(args)
               [] f = AddFn -> Add(args)
               [] f = LessThanFn -> LessThan(args)
               [] f = BindConstructor -> BindFunction(args)
               [] f = RecurseConstructor -> RecurseFunction(args)
               [] f = EvaluateForm ->
                    Thrown(TypeError("Class constructor EvaluateForm cannot be invoked without 'new'"))
               [] f = ReduceForm ->
                    Thrown(TypeError("Class constructor ReduceForm cannot be invoked without 'new'"))
               [] OTHER -> ObjectFunction(f.id, args)
    IN  [ok |-> c.ok, val |-> c.val, st |-> st]

(***************************************************************************)
(* evaluate and reduce                                                     *)
(***************************************************************************)
\* v.method(env) on a value that has no such method
NoMethod(v, method) ==
    CASE v.kind = "undefined" ->
            TypeError("Cannot read properties of undefined (reading '" \o method \o "')")
      [] v.kind = "EvaluateForm" /\ method = "evaluate" ->
            \* static evaluate(expr, env) receives the environment as expr
            TypeError("expr.evaluate is not a function")
      [] v.kind = "ReduceForm" /\ method = "reduce" ->
            \* static reduce(expr, env) receives the environment as expr
            TypeError("expr.reduce is not a function")
      [] OTHER -> TypeError(v.kind \o " value: " \o method \o " is not a function")

RECURSIVE evaluate(_, _, _)
RECURSIVE reduce(_, _, _)
RECURSIVE evaluateRecursive(_, _, _, _)
RECURSIVE mapEvaluate(_, _, _, _, _)
RECURSIVE mapReduce(_, _, _, _, _)
RECURSIVE defineParams(_, _, _, _, _)

\* mapEvaluate as it would be if the operands were evaluated last to first
RECURSIVE mapEvaluateBackwards(_, _, _, _, _)
mapEvaluateBackwards(args, i, env, acc, st) ==
    IF i > Len(args) THEN Return(acc, st)
    ELSE LET r == evaluate(args[Len(args) + 1 - i], env, st)
         IN  IF ~r.ok THEN r
             ELSE mapEvaluateBackwards(args, i + 1, env, <<r.val>> \o acc, r.st)

\* this.args.map(arg => arg.evaluate(env)), from args[i] on
mapEvaluate(args, i, env, acc, st) ==
    IF i > Len(args) THEN Return(acc, st)
    ELSE LET r == evaluate(args[i], env, st)
         IN  IF ~r.ok THEN r
             ELSE mapEvaluate(args, i + 1, env, Append(acc, r.val), r.st)

\* this.args.map(arg => arg.reduce(env)), from args[i] on
mapReduce(args, i, env, acc, st) ==
    IF i > Len(args) THEN Return(acc, st)
    ELSE LET r == reduce(args[i], env, st)
         IN  IF ~r.ok THEN r
             ELSE mapReduce(args, i + 1, env, Append(acc, r.val), r.st)

\* the loop newEnv.define(params[i], evaluatedArgs[i])
defineParams(newEnv, params, args, i, st) ==
    IF i > Len(params) THEN st
    ELSE defineParams(newEnv, params, args, i + 1, define(newEnv, params[i], args[i], st))

\* evaluateRecursive as it would be if the previous step were computed in
\* newEnv, which nests each step's scope in the scope of the step above it
evaluateRecursiveNested(form, n, env, st) ==
    IF n.value = 0
    THEN LET r == evaluate(form.baseCase, env,
                           Log(st, [op |-> "case", form |-> form, n |-> 0, env |-> env,
                                    scope |-> st.heap[env]]))
         IN  [r EXCEPT !.st = Log(@, [op |-> "caseEnd", form |-> form, n |-> 0,
                                      ok |-> r.ok, val |-> r.val])]
    ELSE LET new == extend(env, st)
             key == PropertyKey(form.variable)
         IN  IF ~key.ok THEN Throw(key.val, new.st)
             ELSE LET st1 == define(new.id, key.val, Natural(n.value - 1), new.st)
                      prevStep == evaluateRecursive(form, Natural(n.value - 1), new.id, st1)
                  IN  IF ~prevStep.ok THEN prevStep
                      ELSE LET st2 == define(new.id, "Self", prevStep.val, prevStep.st)
                               r == evaluate(form.recursiveCase, new.id,
                                             Log(st2, [op |-> "case", form |-> form,
                                                       n |-> n.value, env |-> new.id,
                                                       scope |-> st2.heap[new.id]]))
                           IN  [r EXCEPT !.st = Log(@, [op |-> "caseEnd", form |-> form,
                                                        n |-> n.value,
                                                        ok |-> r.ok, val |-> r.val])]

\* Recurse.evaluateRecursive(n, env)
evaluateRecursive(form, n, env, st) ==
    IF n.value = 0
    THEN LET r == evaluate(form.baseCase, env,
                           Log(st, [op |-> "case", form |-> form, n |-> 0, env |-> env,
                                    scope |-> st.heap[env]]))
         IN  [r EXCEPT !.st = Log(@, [op |-> "caseEnd", form |-> form, n |-> 0,
                                      ok |-> r.ok, val |-> r.val])]
    ELSE LET new == extend(env, st)
             key == PropertyKey(form.variable)
         IN  IF ~key.ok THEN Throw(key.val, new.st)
             ELSE LET st1 == define(new.id, key.val, Natural(n.value - 1), new.st)
                      prevStep == evaluateRecursive(form, Natural(n.value - 1), env, st1)
                  IN  IF ~prevStep.ok THEN prevStep
                      ELSE LET st2 == define(new.id, "Self", prevStep.val, prevStep.st)
                               r == evaluate(form.recursiveCase, new.id,
                                             Log(st2, [op |-> "case", form |-> form,
                                                       n |-> n.value, env |-> new.id,
                                                       scope |-> st2.heap[new.id]]))
                           IN  [r EXCEPT !.st = Log(@, [op |-> "caseEnd", form |-> form,
                                                        n |-> n.value,
                                                        ok |-> r.ok, val |-> r.val])]

\* Application.evaluate after the operator and the operands are evaluated
dispatch(evaluatedFunc, evaluatedArgs, env, st) ==
    CASE evaluatedFunc = EvaluateForm ->
            IF Len(evaluatedArgs) # 1
            THEN Throw(Exception("Error", "Evaluate takes exactly one argument"), st)
            ELSE evaluate(evaluatedArgs[1], env, st)
      [] evaluatedFunc = ReduceForm ->
            IF Len(evaluatedArgs) # 1
            THEN Throw(Exception("Error", "Reduce takes exactly one argument"), st)
            ELSE reduce(evaluatedArgs[1], env, st)
      [] evaluatedFunc.kind = "Bind" ->
            IF Len(evaluatedArgs) # Len(evaluatedFunc.params)
            THEN Throw(Exception("Error",
                           "Expected " \o ToString(Len(evaluatedFunc.params))
                               \o " arguments, got " \o ToString(Len(evaluatedArgs))), st)
            ELSE LET new == extend(env, st)
                 IN  evaluate(evaluatedFunc.body, new.id,
                              defineParams(new.id, evaluatedFunc.params, evaluatedArgs, 1, new.st))
      [] evaluatedFunc.kind = "Recurse" ->
            IF Len(evaluatedArgs) # 1
            THEN Throw(Exception("Error", "Recurse takes exactly one argument"), st)
            ELSE IF evaluatedArgs[1].kind # "Natural"
            THEN Throw(Exception("Error", "Recursion argument must be a natural number"), st)
            ELSE evaluateRecursive(evaluatedFunc, evaluatedArgs[1], env, st)
      [] evaluatedFunc.kind = "Function" -> Call(evaluatedFunc, evaluatedArgs, st)
      [] OTHER -> Return(Application(evaluatedFunc, evaluatedArgs), st)

\* expr.evaluate(env), for every class of expr
evaluate(expr, env, st) ==
    CASE expr.kind \in {"Natural", "Boolean", "Bind", "Recurse"} ->
            Return(expr, Log(st, [op |-> "evaluate", expr |-> expr]))
      [] expr.kind = "Symbol" ->
            lookup(env, expr.name, Log(st, [op |-> "evaluate", expr |-> expr]))
      [] expr.kind = "Application" ->
            LET evaluatedFunc ==
                    evaluate(expr.func, env, Log(st, [op |-> "evaluate", expr |-> expr]))
            IN  IF ~evaluatedFunc.ok THEN evaluatedFunc
                ELSE LET evaluatedArgs ==
                             mapEvaluate(expr.args, 1, env, <<>>, evaluatedFunc.st)
                     IN  IF ~evaluatedArgs.ok THEN evaluatedArgs
                         ELSE dispatch(evaluatedFunc.val, evaluatedArgs.val, env,
                                       evaluatedArgs.st)
      [] OTHER -> Throw(NoMethod(expr, "evaluate"), st)

\* expr.reduce(env), for every class of expr
reduce(expr, env, st) ==
    CASE expr.kind \in {"Natural", "Boolean", "Bind", "Recurse"} -> Return(expr, st)
      [] expr.kind = "Symbol" -> lookup(env, expr.name, st)
      [] expr.kind = "Application" ->
            LET reducedFunc == reduce(expr.func, env, st)
            IN  IF ~reducedFunc.ok THEN reducedFunc
                ELSE LET reducedArgs == mapReduce(expr.args, 1, env, <<>>, reducedFunc.st)
                     IN  IF ~reducedArgs.ok THEN reducedArgs
                         ELSE IF IsFunction(reducedFunc.val)
                         THEN Call(reducedFunc.val, reducedArgs.val, reducedArgs.st)
                         ELSE Return(Application(reducedFunc.val, reducedArgs.val),
                                     reducedArgs.st)
      [] OTHER -> Throw(NoMethod(expr, "reduce"), st)

(***************************************************************************)
(* Parser.  A text is a sequence of one-character strings.                 *)
(***************************************************************************)
Whitespace == {" "}

Digits == {"0", "1", "2", "3", "4", "5", "6", "7", "8", "9"}

HexLetters == {"a", "b", "c", "d", "e", "f", "A", "B", "C", "D", "E", "F"}

Letters ==
    {"a", "b", "c", "d", "e", "f", "g", "h", "i", "j", "k", "l", "m",
     "n", "o", "p", "q", "r", "s", "t", "u", "v", "w", "x", "y", "z",
     "A", "B", "C", "D", "E", "F", "G", "H", "I", "J", "K", "L", "M",
     "N", "O", "P", "Q", "R", "S", "T", "U", "V", "W", "X", "Y", "Z"}

\* the string a text denotes
RECURSIVE Str(_)
Str(text) == IF Len(text) = 0 THEN "" ELSE text[1] \o Str(Tail(text))

RECURSIVE trimStart(_)
trimStart(text) ==
    IF Len(text) > 0 /\ text[1] \in Whitespace THEN trimStart(Tail(text)) ELSE text

RECURSIVE trimEnd(_)
trimEnd(text) ==
    IF Len(text) > 0 /\ text[Len(text)] \in Whitespace
    THEN trimEnd(SubSeq(text, 1, Len(text) - 1))
    ELSE text

\* String.prototype.trim
trim(text) == trimEnd(trimStart(text))

DigitValue(c) ==
    IF c \in Digits THEN CHOOSE d \in 0..9 : ToString(d) = c
    ELSE CHOOSE d \in 10..15 :
            c \in {<<"a", "b", "c", "d", "e", "f">>[d - 9], <<"A", "B", "C", "D", "E", "F">>[d - 9]}

\* the value of the longest prefix of text made of digits of the radix;
\* NaN when that prefix is empty
RECURSIVE DigitRun(_, _, _, _)
DigitRun(text, radix, acc, seen) ==
    IF Len(text) > 0 /\ (text[1] \in Digits \/ (radix = 16 /\ text[1] \in HexLetters))
    THEN DigitRun(Tail(text), radix, acc * radix + DigitValue(text[1]), TRUE)
    ELSE IF seen THEN [nan |-> FALSE, value |-> acc] ELSE [nan |-> TRUE, value |-> 0]

\* parseInt(text) without a radix: leading whitespace, a sign, an optional
\* 0x prefix, then the digit run; what follows the run is ignored
parseInt(text) ==
    LET t == trimStart(text)
        negative == Len(t) > 0 /\ t[1] = "-"
        u == IF Len(t) > 0 /\ t[1] \in {"-", "+"} THEN Tail(t) ELSE t
        hex == Len(u) >= 2 /\ u[1] = "0" /\ u[2] \in {"x", "X"}
        run == IF hex THEN DigitRun(SubSeq(u, 3, Len(u)), 16, 0, FALSE)
               ELSE DigitRun(u, 10, 0, FALSE)
    IN  IF run.nan THEN run
        ELSE [nan |-> FALSE, value |-> IF negative THEN 0 - run.value ELSE run.value]

\* the JavaScript value null
Null == [kind |-> "null"]

\* new Natural(value)
NewNatural(value) ==
    IF value < 0
    THEN Thrown(Exception("Error", "Natural numbers must be non-negative"))
    ELSE Completed(Natural(value))

parsePeanoNumber(input) ==
    IF Len(input) > 0 /\ input[1] = "'"
    THEN LET num == parseInt(Tail(input))
         IN  IF num.nan
             THEN Thrown(Exception("Error", "Invalid Peano number: " \o Str(input)))
             ELSE NewNatural(num.value)
    ELSE Completed(Null)

\* /^[a-zA-Z][a-zA-Z0-9]*$/.test(input)
IsSymbolText(input) ==
    /\ Len(input) > 0
    /\ input[1] \in Letters
    /\ \A i \in 2..Len(input) : input[i] \in Letters \cup Digits

\* input.indexOf(c), 1-based; 0 when c does not occur
IndexOf(input, c) ==
    IF \E i \in 1..Len(input) : input[i] = c
    THEN CHOOSE i \in 1..Len(input) : input[i] = c /\ \A j \in 1..(i - 1) : input[j] # c
    ELSE 0

\* the loop of splitArgs, from argsStr[i] on
RECURSIVE splitLoop(_, _, _, _, _)
splitLoop(argsStr, i, current, depth, args) ==
    IF i > Len(argsStr)
    THEN IF Len(trim(current)) > 0 THEN Append(args, trim(current)) ELSE args
    ELSE LET char == argsStr[i]
         IN  IF char = "," /\ depth = 0
             THEN splitLoop(argsStr, i + 1, <<>>, depth, Append(args, trim(current)))
             ELSE splitLoop(argsStr, i + 1, Append(current, char),
                            IF char = "[" THEN depth + 1
                            ELSE IF char = "]" THEN depth - 1 ELSE depth,
                            args)

splitArgs(argsStr) ==
    IF Len(trim(argsStr)) = 0 THEN <<>> ELSE splitLoop(argsStr, 1, <<>>, 0, <<>>)

RECURSIVE parseExpression(_)
RECURSIVE mapParse(_, _, _)

\* splitArgs(argsStr).map(arg => parseExpression(arg, env)), from texts[i] on
mapParse(texts, i, acc) ==
    IF i > Len(texts) THEN Completed(acc)
    ELSE LET r == parseExpression(texts[i])
         IN  IF ~r.ok THEN r ELSE mapParse(texts, i + 1, Append(acc, r.val))

\* parseExpression(input, env); env is only passed along, never read
parseExpression(text) ==
    LET input == trim(text)
        peano == parsePeanoNumber(input)
    IN  IF ~peano.ok \/ peano.val # Null THEN peano
        ELSE IF IsSymbolText(input) THEN Completed(Symbol(Str(input)))
        ELSE IF Len(input) > 0 /\ input[Len(input)] = "]"
        THEN LET openBracket == IndexOf(input, "[")
             IN  IF openBracket = 0
                 THEN Thrown(Exception("Error", "Invalid application syntax"))
                 ELSE LET funcName == SubSeq(input, 1, openBracket - 1)
                          argsStr == SubSeq(input, openBracket + 1, Len(input) - 1)
                          func == parseExpression(funcName)
                      IN  IF ~func.ok THEN func
                          ELSE LET args == mapParse(splitArgs(argsStr), 1, <<>>)
                               IN  IF ~args.ok THEN args
                                   ELSE Completed(Application(func.val, args.val))
        ELSE Thrown(Exception("Error", "Cannot parse expression: " \o Str(input)))

(***************************************************************************)
(* Bootstrap                                                               *)
(***************************************************************************)
\* the bindings setupGlobalEnvironment() defines, in a root Environment
setupGlobalEnvironment ==
    [parent |-> 0,
     bindings |->
        [Zero |-> Natural(0),
         True |-> Boolean(TRUE),
         False |-> Boolean(FALSE),
         And |-> AndFn,
         Or |-> OrFn,
         Not |-> NotFn,
         Equal |-> EqualFn,
         Succ |-> SuccFn,
         Add |-> AddFn,
         LessThan |-> LessThanFn,
         Evaluate |-> EvaluateForm,
         Reduce |-> ReduceForm,
         Bind |-> BindConstructor,
         Recurse |-> RecurseConstructor]]

(***************************************************************************)
(* Inputs                                                                  *)
(***************************************************************************)
\* the characters the generated texts are made of
Alphabet == {"'", "1", "a", "[", "]", ",", "-"}

\* all sequences over S of length at most n
RECURSIVE SeqsUpTo(_, _)
SeqsUpTo(S, n) ==
    IF n = 0 THEN {<<>>}
    ELSE LET shorter == SeqsUpTo(S, n - 1)
         IN  shorter \cup {Append(t, c) : t \in {u \in shorter : Len(u) = n - 1}, c \in S}

\* the decimal text of a small number
RECURSIVE Decimal(_)
Decimal(n) ==
    IF n < 10 THEN <<ToString(n)>> ELSE Decimal(n \div 10) \o <<ToString(n % 10)>>

\* Bind[x, Add[x, '1]]['n]
BindText(n) ==
    <<"B", "i", "n", "d", "[", "x", ",", " ", "A", "d", "d", "[", "x", ",", " ",
      "'", "1", "]", "]", "[", "'">> \o Decimal(n) \o <<"]">>

\* Recurse[k, Succ[Self], Zero]['n]
RecurseText(n) ==
    <<"R", "e", "c", "u", "r", "s", "e", "[", "k", ",", " ",
      "S", "u", "c", "c", "[", "S", "e", "l", "f", "]", ",", " ",
      "Z", "e", "r", "o", "]", "[", "'">> \o Decimal(n) \o <<"]">>

\* Add['n, 'm]
AddText(n, m) ==
    <<"A", "d", "d", "[", "'">> \o Decimal(n) \o <<",", " ", "'">> \o Decimal(m) \o <<"]">>

\* the other inputs of the documented examples
ExampleTexts ==
    {<<"B", "i", "n", "d", "[", "x", ",", " ", "x", "]", "[", "'", "1", "]">>,
     <<"A", "d", "d", "[", "T", "r", "u", "e", ",", " ", "'", "1", "]">>,
     <<"L", "e", "s", "s", "T", "h", "a", "n", "[", "'", "3", ",", " ", "'", "5", "]">>,
     <<"E", "v", "a", "l", "u", "a", "t", "e", "[", "'", "1", "]">>,
     <<"R", "e", "d", "u", "c", "e", "[", "'", "1", "]">>,
     <<"E", "q", "u", "a", "l", "[", "'", "1", "]">>,
     <<"B", "i", "n", "d", "[", "Z", "e", "r", "o", ",", " ", "Z", "e", "r", "o", "]">>,
     <<"F", "o", "o">>,
     <<"c", "o", "n", "s", "t", "r", "u", "c", "t", "o", "r">>}

Texts ==
    (SeqsUpTo(Alphabet, MaxLen) \ {<<>>})
        \cup ExampleTexts
        \cup {BindText(n) : n \in 0..MaxNat}
        \cup {RecurseText(n) : n \in 0..MaxNat}
        \cup {AddText(n, m) : n \in 0..MaxNat, m \in 0..MaxNat}

\* operands of the term inputs
ArgAtoms == {Natural(1), Symbol("True"), Symbol("Foo"), Symbol("x"), Symbol("Add")}

\* literal Bind nodes
BindForms ==
    {Bind(<<"x">>, Symbol("x")),
     Bind(<<"x">>, Application(Symbol("Add"), <<Symbol("x"), Natural(1)>>)),
     Bind(<<"x", "y">>, Application(Symbol("Add"), <<Symbol("x"), Symbol("y")>>)),
     Bind(<<>>, Symbol("Foo"))}

\* literal Recurse nodes; the induction variable is a string, or (as the
\* Recurse function of the global environment builds them) a value, here one
\* whose toString throws
RecurseForms ==
    {Recurse(v, rc, bc) :
        v \in {HostString("k"), HostString("Self"), Application(NotFn, <<Undefined>>)},
        rc \in {Application(Symbol("Succ"), <<Symbol("Self")>>),
                Application(Symbol("Add"), <<Symbol("Self"), Symbol("k")>>),
                Symbol("k"),
                Symbol("Foo")},
        bc \in {Symbol("Zero"), Natural(1), Symbol("Foo")}}

\* operators of the term inputs
OpAtoms ==
    {Symbol(n) : n \in {"And", "Not", "Equal", "Succ", "Add", "Evaluate", "Reduce",
                        "Bind", "Recurse", "Foo", "toString"}}
        \cup {Natural(1)} \cup BindForms
        \cup {Recurse(HostString("k"), Application(Symbol("Succ"), <<Symbol("Self")>>),
                      Symbol("Zero"))}

\* Bind[x, Add[x, '1]]['n] and Recurse[k, Succ[Self], Zero]['n] as the
\* grammar reads them: an application whose operator is an application
CurriedTerms ==
    {Application(Application(Symbol("Bind"),
                     <<Symbol("x"), Application(Symbol("Add"), <<Symbol("x"), Natural(1)>>)>>),
                 <<Natural(n)>>) : n \in 0..MaxNat}
    \cup
    {Application(Application(Symbol("Recurse"),
                     <<Symbol("k"), Application(Symbol("Succ"), <<Symbol("Self")>>),
                       Symbol("Zero")>>),
                 <<Natural(n)>>) : n \in 0..MaxNat}

\* a Recurse form applied to 'n at the top level, and inside a Bind body
RecurseTerms ==
    {Application(form, <<Natural(n)>>) : form \in RecurseForms, n \in 0..MaxNat}
    \cup
    {Application(Bind(<<"y">>, Application(form, <<Symbol("y")>>)), <<Natural(n)>>) :
        form \in RecurseForms, n \in 0..MaxNat}

FlatTerms == {Application(op, args) : op \in OpAtoms, args \in SeqsUpTo(ArgAtoms, MaxArgs)}

\* Evaluate[e] and Reduce[e] of applications of the natives and the forms
ForcedTerms ==
    {Application(Symbol(f), <<Application(op, <<a, Natural(1)>>)>>) :
        f \in {"Evaluate", "Reduce"},
        op \in {Symbol("Add"), Symbol("Equal"), Symbol("Evaluate"), Natural(1)}
                \cup BindForms,
        a \in ArgAtoms}

Terms ==
    {Natural(n) : n \in 0..MaxNat} \cup ArgAtoms \cup OpAtoms
        \cup FlatTerms \cup ForcedTerms \cup RecurseTerms \cup CurriedTerms

\* operands handed to a native function: values, residual terms, a function
OperandValues ==
    {Natural(0), Natural(1), Boolean(TRUE), Boolean(FALSE),
     Application(SuccFn, <<Boolean(TRUE)>>), AddFn}

(***************************************************************************)
(* State                                                                   *)
(***************************************************************************)
VARIABLES
    heap,       \* the environments; heap[1] is globalEnv
    log,        \* what the last command did to environments and case bodies
    cmd,        \* the last command
    parsed,     \* the completion of parseExpression in the last processInput
    out,        \* the completion of the last command
    prev,       \* the completion the last command was applied to again
    display,    \* the line processInput appended to the REPL
    pc,         \* "ready": waiting for a command; "shown": a command completed
    defined     \* the pairs <<scope, name>> define was called with

vars == <<heap, log, cmd, parsed, out, prev, display, pc, defined>>

None == [op |-> "none"]

NoCompletion == [ok |-> TRUE, val |-> Null]

globalEnv == 1

Init ==
    /\ heap = <<setupGlobalEnvironment>>
    /\ log = <<>>
    /\ cmd = None
    /\ parsed = NoCompletion
    /\ out = NoCompletion
    /\ prev = NoCompletion
    /\ display = ""
    /\ pc = "ready"
    /\ defined = {<<globalEnv, n>> : n \in DOMAIN setupGlobalEnvironment.bindings}

\* the store a command starts from
Store == [heap |-> heap, log |-> <<>>]

\* evaluated.toString() in processInput: throws on a term that holds undefined
Rendered(r) ==
    IF ~r.ok THEN Thrown(r.val)
    ELSE IF HasToString(r.val) THEN Completed(r.val)
    ELSE Thrown(TypeError("Cannot read properties of undefined (reading 'toString')"))

\* processInput(input) with a non-empty input, as runExample calls it: parse,
\* evaluate against globalEnv, append the result or the caught error
processInput(input) ==
    /\ pc = "ready"
    /\ LET p == parseExpression(input)
           r == evaluate(p.val, globalEnv, Store)
           shown == Rendered(r)
       IN  /\ parsed' = p
           /\ IF p.ok
              THEN /\ out' = shown
                   /\ heap' = <<r.st.heap[globalEnv]>>
                   /\ log' = r.st.log
                   /\ display' = IF shown.ok THEN "-> " \o toString(shown.val)
                                 ELSE "Error: " \o shown.val.message
              ELSE /\ out' = p
                   /\ heap' = heap
                   /\ log' = <<>>
                   /\ display' = "Error: " \o p.val.message
    /\ cmd' = [op |-> "processInput", input |-> input]
    /\ prev' = NoCompletion
    /\ pc' = "shown"
    /\ UNCHANGED defined

\* expr.evaluate(globalEnv) on a term built by the caller
Evaluate(expr) ==
    /\ pc = "ready"
    /\ LET r == evaluate(expr, globalEnv, Store)
       IN  /\ out' = [ok |-> r.ok, val |-> r.val]
           /\ heap' = <<r.st.heap[globalEnv]>>
           /\ log' = r.st.log
    /\ cmd' = [op |-> "evaluate", expr |-> expr, again |-> FALSE]
    /\ prev' = NoCompletion
    /\ pc' = "shown"
    /\ UNCHANGED <<parsed, display, defined>>

\* expr.reduce(globalEnv) on a term built by the caller
Reduce(expr) ==
    /\ pc = "ready"
    /\ LET r == reduce(expr, globalEnv, Store)
       IN  /\ out' = [ok |-> r.ok, val |-> r.val]
           /\ heap' = <<r.st.heap[globalEnv]>>
           /\ log' = r.st.log
    /\ cmd' = [op |-> "reduce", expr |-> expr, again |-> FALSE]
    /\ prev' = NoCompletion
    /\ pc' = "shown"
    /\ UNCHANGED <<parsed, display, defined>>

\* the same operation applied to the result it returned
Again ==
    /\ pc = "shown"
    /\ cmd.op \in {"evaluate", "reduce"}
    /\ ~cmd.again
    /\ out.ok
    /\ LET r == IF cmd.op = "evaluate" THEN evaluate(out.val, globalEnv, Store)
                ELSE reduce(out.val, globalEnv, Store)
       IN  /\ out' = [ok |-> r.ok, val |-> r.val]
           /\ heap' = <<r.st.heap[globalEnv]>>
           /\ log' = r.st.log
    /\ cmd' = [op |-> cmd.op, expr |-> out.val, again |-> TRUE]
    /\ prev' = out
    /\ UNCHANGED <<parsed, display, pc, defined>>

\* evaluatedFunc(...evaluatedArgs): a native function on a list of operands
Invoke(func, args) ==
    /\ pc = "ready"
    /\ LET r == Call(func, args, Store)
       IN  /\ out' = [ok |-> r.ok, val |-> r.val]
           /\ heap' = <<r.st.heap[globalEnv]>>
           /\ log' = r.st.log
    /\ cmd' = [op |-> "call", func |-> func, args |-> args]
    /\ prev' = NoCompletion
    /\ pc' = "shown"
    /\ UNCHANGED <<parsed, display, defined>>

\* the command is over: its child scopes are garbage, the REPL waits for the
\* next command
Prompt ==
    /\ pc = "shown"
    /\ pc' = "ready"
    /\ log' = <<>>
    /\ cmd' = None
    /\ parsed' = NoCompletion
    /\ out' = NoCompletion
    /\ prev' = NoCompletion
    /\ display' = ""
    /\ UNCHANGED <<heap, defined>>

Next ==
    \/ \E input \in Texts : processInput(input)
    \/ \E expr \in Terms : Evaluate(expr)
    \/ \E expr \in Terms : Reduce(expr)
    \/ Again
    \/ \E func \in Primitives, args \in SeqsUpTo(OperandValues, MaxArgs) : Invoke(func, args)
    \/ Prompt

Spec == Init /\ [][Next]_vars

(***************************************************************************)
(* Properties of the commands (specification Spec)                         *)
(***************************************************************************)
EvaluatedTerm == pc = "shown" /\ cmd.op = "evaluate" /\ ~cmd.again

ReducedTerm == pc = "shown" /\ cmd.op = "reduce" /\ ~cmd.again

Entered(text) == pc = "shown" /\ cmd = [op |-> "processInput", input |-> text]

\* C1: for every n, the input Bind[x, Add[x, '1]]['n] parses and evaluates,
\* against the global environment, to the Natural n + 1
C1_BindApplies ==
    \A n \in 0..MaxNat :
        Entered(BindText(n)) => parsed.ok /\ out.ok /\ out.val = Natural(n + 1)

\* C2: for every n, the input Recurse[k, Succ[Self], Zero]['n] parses and
\* evaluates, against the global environment, to the Natural n
C2_RecurseReproduces ==
    \A n \in 0..MaxNat :
        Entered(RecurseText(n)) => parsed.ok /\ out.ok /\ out.val = Natural(n)

\* C3: reduce of an Application whose reduced operator is a Bind, a Recurse,
\* EvaluateForm or ReduceForm returns Application(reduced operator, reduced
\* operands), raises nothing, and creates or writes no scope
C3_ReduceLeavesFormsInert ==
    (ReducedTerm /\ cmd.expr.kind = "Application") =>
        LET reducedFunc == reduce(cmd.expr.func, globalEnv, Store)
            reducedArgs == mapReduce(cmd.expr.args, 1, globalEnv, <<>>, Store)
        IN  (/\ reducedFunc.ok
             /\ reducedArgs.ok
             /\ \/ reducedFunc.val.kind \in {"Bind", "Recurse"}
                \/ reducedFunc.val \in {EvaluateForm, ReduceForm})
            => /\ out.ok
               /\ out.val = Application(reducedFunc.val, reducedArgs.val)
               /\ log = <<>>

\* C4: evaluate applied to a result of evaluate, and reduce applied to a
\* result of reduce, succeeds and returns that same result
C4_Idempotent ==
    (pc = "shown" /\ cmd.op \in {"evaluate", "reduce"} /\ cmd.again) =>
        out.ok /\ out.val = prev.val

\* C5: a primitive called on any list of operands returns a Natural or a
\* Boolean, or else the Application of itself to exactly those operands; it
\* never throws
C5_PrimitiveNeverThrows ==
    (pc = "shown" /\ cmd.op = "call") =>
        /\ out.ok
        /\ \/ out.val.kind \in {"Natural", "Boolean"}
           \/ out.val = Application(cmd.func, cmd.args)

\* C7: whatever the commands run so far did, and whether they returned or
\* threw, globalEnv holds exactly the bootstrap bindings; every define of a
\* command wrote a scope that extend() created earlier in that command and
\* that had no child scope at that moment
C7_GlobalEnvNeverWritten ==
    /\ heap[globalEnv] = setupGlobalEnvironment
    /\ \A i \in 1..Len(log) :
            log[i].op = "define" =>
                /\ log[i].env # globalEnv
                /\ \E j \in 1..(i - 1) : log[j].op = "extend" /\ log[j].env = log[i].env
                /\ \A j \in 1..(i - 1) : log[j].op = "extend" => log[j].parent # log[i].env

\* a command that bound a name in a child scope and then threw
C7_Witness ==
    /\ pc = "shown"
    /\ ~out.ok
    /\ \E i \in 1..Len(log) : log[i].op = "define"

\* the grammar: peanoLiteral | symbol | application, white space allowed
\* around an expression
IsPeanoLiteral(t) ==
    Len(t) >= 2 /\ t[1] = "'" /\ \A i \in 2..Len(t) : t[i] \in Digits

RECURSIVE IsExpression(_)
RECURSIVE IsArguments(_)

\* expression ("," expression)*
IsArguments(text) ==
    \/ IsExpression(text)
    \/ \E i \in 1..Len(text) :
            /\ text[i] = ","
            /\ IsExpression(SubSeq(text, 1, i - 1))
            /\ IsArguments(SubSeq(text, i + 1, Len(text)))

IsExpression(text) ==
    LET t == trim(text)
    IN  \/ IsPeanoLiteral(t)
        \/ IsSymbolText(t)
        \/ /\ Len(t) >= 3
           /\ t[Len(t)] = "]"
           /\ \E i \in 2..(Len(t) - 1) :
                /\ t[i] = "["
                /\ IsExpression(SubSeq(t, 1, i - 1))
                /\ LET argList == SubSeq(t, i + 1, Len(t) - 1)
                   IN  Len(trim(argList)) = 0 \/ IsArguments(argList)

\* C8: parseExpression throws on every text the grammar does not derive
C8_ParseRejectsNonGrammar ==
    (pc = "shown" /\ cmd.op = "processInput" /\ ~IsExpression(cmd.input)) => ~parsed.ok

\* the command applied a Recurse form to a Natural: directly at the top
\* level, or in the body of a Bind whose parameter y holds the Natural
DirectRecursion ==
    /\ EvaluatedTerm
    /\ cmd.expr.kind = "Application"
    /\ cmd.expr.func.kind = "Recurse"
    /\ Len(cmd.expr.args) = 1
    /\ cmd.expr.args[1].kind = "Natural"

NestedRecursion ==
    /\ EvaluatedTerm
    /\ cmd.expr.kind = "Application"
    /\ cmd.expr.func.kind = "Bind"
    /\ cmd.expr.func.params = <<"y">>
    /\ cmd.expr.func.body.kind = "Application"
    /\ cmd.expr.func.body.func.kind = "Recurse"
    /\ cmd.expr.func.body.args = <<Symbol("y")>>
    /\ Len(cmd.expr.args) = 1
    /\ cmd.expr.args[1].kind = "Natural"

AppliedForm == IF DirectRecursion THEN cmd.expr.func ELSE cmd.expr.func.body.func

AppliedTo == cmd.expr.args[1].value

IsExtend(event) == event.op = "extend"

\* the call-site environment E: globalEnv, or the scope of the Bind
CallSite ==
    IF DirectRecursion THEN globalEnv ELSE SelectSeq(log, IsExtend)[1].env

IsCase(event) == event.op = "case" /\ event.form = AppliedForm

IsCaseEnd(event) == event.op = "caseEnd" /\ event.form = AppliedForm

\* the case-body evaluations of the application, and their completions
Cases == SelectSeq(log, IsCase)

CaseEnds == SelectSeq(log, IsCaseEnd)

\* the name the induction variable is bound under
InductionKey == PropertyKey(AppliedForm.variable)

\* step k ran in a scope of its own, created as a child of E
FreshChild(k) ==
    /\ Cases[k + 1].env # CallSite
    /\ Cases[k + 1].scope.parent = CallSite
    /\ \A j \in 1..k : Cases[j].env # Cases[k + 1].env
    /\ \E i \in 1..Len(log) :
            log[i] = [op |-> "extend", env |-> Cases[k + 1].env, parent |-> CallSite]

\* C9 as stated: applying a Recurse form to the Natural n in E performs
\* exactly n + 1 case-body evaluations, baseCase in E and then, for k = 1..n
\* in this order, recursiveCase in a fresh child of E that binds the
\* induction variable to Natural(k - 1) and Self to the result of step k - 1
C9_Original ==
    (DirectRecursion \/ NestedRecursion) =>
        /\ Len(Cases) = AppliedTo + 1
        /\ Cases[1].n = 0
        /\ Cases[1].env = CallSite
        /\ \A k \in 1..AppliedTo :
                /\ Cases[k + 1].n = k
                /\ FreshChild(k)
                /\ InductionKey.ok
                /\ Cases[k + 1].scope.bindings[InductionKey.val] = Natural(k - 1)
                /\ Cases[k + 1].scope.bindings["Self"] = CaseEnds[k].val

\* C9 amended: the case bodies are evaluated in the order baseCase, step 1,
\* ..., step n, each started after the one before it returned; the
\* application ends with the first error, and performs all n + 1 evaluations
\* when it returns.  baseCase runs in E, step k in a fresh child of E that
\* binds Self to the result of step k - 1 and the induction variable, unless
\* its name is Self, to Natural(k - 1)
C9_Amended ==
    (DirectRecursion \/ NestedRecursion) =>
        /\ Len(Cases) <= AppliedTo + 1
        /\ Len(CaseEnds) = Len(Cases)
        /\ \A j \in 1..Len(Cases) : Cases[j].n = j - 1 /\ CaseEnds[j].n = j - 1
        /\ \A j \in 1..(Len(Cases) - 1) : CaseEnds[j].ok
        /\ out.ok => /\ Len(Cases) = AppliedTo + 1
                     /\ CaseEnds[AppliedTo + 1] =
                            [op |-> "caseEnd", form |-> AppliedForm, n |-> AppliedTo,
                             ok |-> TRUE, val |-> out.val]
        /\ Len(Cases) < AppliedTo + 1 => ~out.ok
        /\ (Len(Cases) > 0 /\ ~CaseEnds[Len(Cases)].ok) =>
                ~out.ok /\ out.val = CaseEnds[Len(Cases)].val
        /\ Len(Cases) > 0 => Cases[1].env = CallSite
        /\ \A k \in 1..(Len(Cases) - 1) :
                /\ FreshChild(k)
                /\ InductionKey.ok
                /\ DOMAIN Cases[k + 1].scope.bindings = {InductionKey.val, "Self"}
                /\ Cases[k + 1].scope.bindings["Self"] = CaseEnds[k].val
                /\ InductionKey.val # "Self" =>
                        Cases[k + 1].scope.bindings[InductionKey.val] = Natural(k - 1)

\* a Recurse form applied in the scope of a Bind to the largest Natural, all
\* of whose steps returned
C9_Witness ==
    /\ NestedRecursion
    /\ AppliedTo = MaxNat
    /\ out.ok
    /\ Len(Cases) = MaxNat + 1
    /\ CallSite # globalEnv
    /\ InductionKey.val = "k"

\* the expressions of the evaluate calls of a log, in call order
IsEvaluate(event) == event.op = "evaluate"

RECURSIVE Exprs(_)
Exprs(events) ==
    IF Len(events) = 0 THEN <<>> ELSE <<events[1].expr>> \o Exprs(Tail(events))

EvaluateOrder(events) == Exprs(SelectSeq(events, IsEvaluate))

\* the operator and each operand of the command's Application, evaluated on
\* their own in globalEnv
AloneFunc == evaluate(cmd.expr.func, globalEnv, Store)

AloneArg(i) == evaluate(cmd.expr.args[i], globalEnv, Store)

FailingArgs == {i \in 1..Len(cmd.expr.args) : ~AloneArg(i).ok}

FirstFailingArg == CHOOSE i \in FailingArgs : \A j \in FailingArgs : i <= j

\* the evaluate calls of the operands 1..upTo, in order
RECURSIVE ArgsOrder(_)
ArgsOrder(upTo) ==
    IF upTo = 0 THEN <<>>
    ELSE ArgsOrder(upTo - 1) \o EvaluateOrder(AloneArg(upTo).st.log)

IsPrefix(a, b) == Len(a) <= Len(b) /\ SubSeq(b, 1, Len(a)) = a

\* the error the dispatch of evaluatedFunc on n operands raises, if any
DispatchError(evaluatedFunc, args) ==
    CASE evaluatedFunc = EvaluateForm /\ Len(args) # 1 ->
            {Exception("Error", "Evaluate takes exactly one argument")}
      [] evaluatedFunc = ReduceForm /\ Len(args) # 1 ->
            {Exception("Error", "Reduce takes exactly one argument")}
      [] evaluatedFunc.kind = "Bind" /\ Len(args) # Len(evaluatedFunc.params) ->
            {Exception("Error", "Expected " \o ToString(Len(evaluatedFunc.params))
                                    \o " arguments, got " \o ToString(Len(args)))}
      [] evaluatedFunc.kind = "Recurse" /\ Len(args) # 1 ->
            {Exception("Error", "Recurse takes exactly one argument")}
      [] evaluatedFunc.kind = "Recurse" /\ Len(args) = 1 /\ args[1].kind # "Natural" ->
            {Exception("Error", "Recursion argument must be a natural number")}
      [] OTHER -> {}

\* C10: evaluate of an Application evaluates the operator, then the operands
\* left to right, then dispatches: its evaluate calls start with those of the
\* operator followed by those of the operands in order; it throws the
\* operator's error if the operator fails, else the error of the leftmost
\* failing operand; an arity or type error of the dispatch is thrown when,
\* and only after, the operator and all operands returned
C10_OperatorThenOperandsInOrder ==
    (EvaluatedTerm /\ cmd.expr.kind = "Application") =>
        LET upTo == IF FailingArgs = {} THEN Len(cmd.expr.args) ELSE FirstFailingArg
        IN  /\ ~AloneFunc.ok =>
                /\ out = [ok |-> FALSE, val |-> AloneFunc.val]
                /\ EvaluateOrder(log) = <<cmd.expr>> \o EvaluateOrder(AloneFunc.st.log)
            /\ AloneFunc.ok =>
                IsPrefix(<<cmd.expr>> \o EvaluateOrder(AloneFunc.st.log) \o ArgsOrder(upTo),
                         EvaluateOrder(log))
            /\ (AloneFunc.ok /\ FailingArgs # {}) =>
                /\ out = [ok |-> FALSE, val |-> AloneArg(FirstFailingArg).val]
                /\ EvaluateOrder(log) =
                        <<cmd.expr>> \o EvaluateOrder(AloneFunc.st.log) \o ArgsOrder(upTo)
            /\ (AloneFunc.ok /\ FailingArgs = {}) =>
                LET operands == [i \in 1..Len(cmd.expr.args) |-> AloneArg(i).val]
                    error == DispatchError(AloneFunc.val, operands)
                IN  error # {} => ~out.ok /\ out.val \in error

\* an Evaluate with two operands that both fail: neither the arity error nor
\* the error of the second operand is the one thrown
C10_Witness ==
    /\ EvaluatedTerm
    /\ cmd.expr = Application(Symbol("Evaluate"), <<Symbol("Foo"), Symbol("x")>>)
    /\ out = [ok |-> FALSE, val |-> Exception("Error", "Undefined symbol: Foo")]

(***************************************************************************)
(* The Environment operations on their own (specification ScopeSpec):      *)
(* scopes are extended and written by the caller, and names are looked up, *)
(* evaluated and reduced in any of them.                                   *)
(***************************************************************************)
\* names the caller defines, and the values it gives them
ScopeNames == {"x"}

ScopeValues == {Natural(0), Natural(1)}

\* names looked up, as texts
LookupTexts ==
    {<<"x">>, <<"Z", "e", "r", "o">>, <<"F", "o", "o">>,
     <<"c", "o", "n", "s", "t", "r", "u", "c", "t", "o", "r">>}

\* env.extend()
Extend(env) ==
    /\ Len(heap) < MaxScopes
    /\ LET new == extend(env, Store)
       IN  /\ heap' = new.st.heap
           /\ log' = new.st.log
           /\ out' = Completed([kind |-> "Environment", id |-> new.id])
    /\ cmd' = [op |-> "extend", env |-> env]
    /\ UNCHANGED <<parsed, prev, display, pc, defined>>

\* env.define(name, value)
Define(env, name, value) ==
    /\ LET st == define(env, name, value, Store)
       IN  /\ heap' = st.heap
           /\ log' = st.log
    /\ defined' = defined \cup {<<env, name>>}
    /\ cmd' = [op |-> "define", env |-> env, name |-> name]
    /\ out' = Completed(Undefined)
    /\ UNCHANGED <<parsed, prev, display, pc>>

\* env.lookup(name)
Lookup(env, text) ==
    /\ LET r == lookup(env, Str(text), Store)
       IN  /\ out' = [ok |-> r.ok, val |-> r.val]
           /\ log' = r.st.log
    /\ cmd' = [op |-> "lookup", env |-> env, text |-> text]
    /\ UNCHANGED <<heap, parsed, prev, display, pc, defined>>

\* new Symbol(name).evaluate(env)
EvaluateSymbol(env, text) ==
    /\ LET r == evaluate(Symbol(Str(text)), env, Store)
       IN  /\ out' = [ok |-> r.ok, val |-> r.val]
           /\ log' = r.st.log
    /\ cmd' = [op |-> "evaluateSymbol", env |-> env, text |-> text]
    /\ UNCHANGED <<heap, parsed, prev, display, pc, defined>>

\* new Symbol(name).reduce(env)
ReduceSymbol(env, text) ==
    /\ LET r == reduce(Symbol(Str(text)), env, Store)
       IN  /\ out' = [ok |-> r.ok, val |-> r.val]
           /\ log' = r.st.log
    /\ cmd' = [op |-> "reduceSymbol", env |-> env, text |-> text]
    /\ UNCHANGED <<heap, parsed, prev, display, pc, defined>>

ScopeNext ==
    \/ \E env \in 1..Len(heap) : Extend(env)
    \/ \E env \in 1..Len(heap), name \in ScopeNames, value \in ScopeValues :
            Define(env, name, value)
    \/ \E env \in 1..Len(heap), text \in LookupTexts : Lookup(env, text)
    \/ \E env \in 1..Len(heap), text \in LookupTexts : EvaluateSymbol(env, text)
    \/ \E env \in 1..Len(heap), text \in LookupTexts : ReduceSymbol(env, text)

ScopeSpec == Init /\ [][ScopeNext]_vars

\* the scopes from env out to the root
RECURSIVE Chain(_)
Chain(env) ==
    {env} \cup (IF heap[env].parent # 0 THEN Chain(heap[env].parent) ELSE {})

\* C6: a name the symbol grammar accepts and define was never called with,
\* on any scope from the local one out to the root, is not found: lookup,
\* and evaluate and reduce of the Symbol, throw Undefined symbol
C6_UndefinedNameFails ==
    (/\ cmd.op \in {"lookup", "evaluateSymbol", "reduceSymbol"}
     /\ IsSymbolText(cmd.text)
     /\ \A scope \in Chain(cmd.env) : <<scope, Str(cmd.text)>> \notin defined)
    => out = [ok |-> FALSE,
              val |-> Exception("Error", "Undefined symbol: " \o Str(cmd.text))]

====
